---- MODULE Spec2Model ----
(***************************************************************************)
(* Crowd-level fusion engine (hello-world/app.js) and its report store.    *)
(*                                                                         *)
(* Number representation.  The handler computes in IEEE doubles; the model *)
(* computes the same expressions in exact integer arithmetic:              *)
(*   - occupancy fractions are counted in twentieths (0.15 = 3/20, ...);   *)
(*   - exp(-minutesAgo/tau) is a table in hundredths, one entry a minute;  *)
(*   - a weight w is counted in thousandths (base * decay/100 * bonus/2    *)
(*     * downweight/5);                                                    *)
(*   - the prior mean mu0 is the exact fraction sum/(20*count);            *)
(*   - num/den is an exact fraction, so the outlier test, est_headcount,   *)
(*     level and confidence are decided exactly;                           *)
(*   - sigma is a square root: it is computed in thousandths, rounded down.*)
(* Instants are [day, ms]: days since 1970-01-01 and milliseconds in the   *)
(* day, which is what an ISO-8601 string denotes; this also keeps every    *)
(* value below 2^31.                                                       *)
(***************************************************************************)
EXTENDS Integers, Sequences, FiniteSets, TLC

(***************************************************************************)
(* Program constants                                                       *)
(***************************************************************************)
\* CAP = Number(process.env.CAPACITY || 60)
CAP == 60
\* how many weeks to look back
PRIOR_LOOKBACK_WEEKS == 4
\* +- window (minutes) for the prior
PRIOR_HALF_WIN_MIN == 30
\* max prior strength
PRIOR_K_MAX == 10
\* Math.max(2, fs.length): the floor of the prior strength
PRIOR_K_MIN == 2
\* Number(process.env.PRIOR_MU0 ?? 0.35), in twentieths
PRIOR_MU0 == 7
\* Number(process.env.PRIOR_K0 ?? 2)
PRIOR_K0 == 2
\* Number(q.win || 15)
WIN_DEFAULT == 15
\* Number(process.env.W_DRIVER ?? 3)
wDriver == 3
\* Number(process.env.W_RIDER ?? 1)
wRider == 1
\* Number(process.env.OUTLIER_DELTA ?? 0.40), in twentieths
outDelta == 8
\* Number(process.env.BUS_BONUS ?? 1.5), in halves
busBonus == 3
\* the factor 1.0 of a report without the same-bus bonus, in halves
noBonus == 2
\* w *= 0.6, in fifths
outlierFactor == 3
\* the factor 1 of a report that is no outlier, in fifths
inlierFactor == 5
\* the fraction of an unrecognised level (?? 0.35), in twentieths
defaultFrac == 7
\* 24 * 60 * 60 * 1000
DayMs == 86400000
\* 60 * 1000, and the divisor of (centerMs - ts) / 60000
MinMs == 60000
\* the days of i * 7 * 24 * 60 * 60 * 1000
WeekDays == 7
\* getUTCDay() of day 0 (1970-01-01 was a Thursday)
EpochDow == 4
\* kEff < 3 ? "low"
confLow == 3
\* kEff < 6 ? "med"
confMed == 6

(***************************************************************************)
(* Arithmetic helpers                                                      *)
(***************************************************************************)
Max(a, b) == IF a >= b THEN a ELSE b
Min(a, b) == IF a <= b THEN a ELSE b
Abs(x) == IF x < 0 THEN -x ELSE x

RECURSIVE Gcd(_, _)
Gcd(a, b) == IF b = 0 THEN a ELSE Gcd(b, a % b)

\* Math.sqrt on a non-negative integer, rounded down
ISqrt(v) == CHOOSE s \in 0..1000 : s * s <= v /\ (s + 1) * (s + 1) > v

clampWrong(x, a, b) == x
\* const clamp = (x, a, b) => Math.max(a, Math.min(b, x))
clamp(x, a, b) == Max(a, Min(b, x))

\* Math.round(f * CAP) for f = n/d >= 0: floor(f * CAP + 1/2)
RoundCap(n, d) == (2 * CAP * n + d) \div (2 * d)

(***************************************************************************)
(* Instants: Date, toISOString, Date.parse                                 *)
(***************************************************************************)
Instant(day, ms) == [day |-> day, ms |-> ms]
\* new Date(t + d): d milliseconds later, carried into the day
AddMs(t, d) ==
    LET total == t.ms + d
    IN  [day |-> t.day + (total \div DayMs), ms |-> total % DayMs]
\* a - b in milliseconds
DiffMs(a, b) == (a.day - b.day) * DayMs + (a.ms - b.ms)
\* ISO strings of instants compare as the instants do
IsoLeq(a, b) == a.day < b.day \/ (a.day = b.day /\ a.ms <= b.ms)
\* new Date(ms).getUTCDay()
getUTCDay(t) == (t.day + EpochDow) % 7

(***************************************************************************)
(* Report items and the level table                                        *)
(***************************************************************************)
\* A level as it is stored: a number, a string, a boolean, or missing.
LvNum(n) == [t |-> "num", n |-> n, s |-> ""]
LvStr(s) == [t |-> "str", n |-> 0, s |-> s]
LvBool(b) == [t |-> "bool", n |-> IF b THEN 1 ELSE 0, s |-> ""]
LvMissing == [t |-> "nil", n |-> 0, s |-> ""]

DigitStrings == <<"0", "1", "2", "3", "4", "5", "6", "7", "8", "9">>
\* Number(lv): [nan, n]; a string is a number when it is a digit (or empty: 0)
Number(lv) ==
    CASE lv.t = "num" -> [nan |-> FALSE, n |-> lv.n]
      [] lv.t = "bool" -> [nan |-> FALSE, n |-> lv.n]
      [] lv.t = "str" ->
            IF lv.s = "" THEN [nan |-> FALSE, n |-> 0]
            ELSE IF \E d \in 1..10 : DigitStrings[d] = lv.s
                 THEN [nan |-> FALSE,
                       n |-> (CHOOSE d \in 1..10 : DigitStrings[d] = lv.s) - 1]
                 ELSE [nan |-> TRUE, n |-> 0]
      [] OTHER -> [nan |-> TRUE, n |-> 0]

\* { 1: 0.15, 2: 0.35, 3: 0.65, 4: 0.90 }, in twentieths
FracTable == <<3, 7, 13, 18>>

levelToFracNearest(lv) ==
    LET x == Number(lv)
    IN  IF x.nan THEN defaultFrac ELSE FracTable[clamp(x.n, 1, 4)]
\* const levelToFrac = (lv) => ({...}[Number(lv)] ?? 0.35)
levelToFrac(lv) ==
    LET x == Number(lv)
    IN  IF ~x.nan /\ x.n \in DOMAIN FracTable THEN FracTable[x.n] ELSE defaultFrac

\* `REPORT#${route}#${stop}`: route and stop are sequences of characters
PartitionKey(route, stop) == <<"REPORT", "#">> \o route \o <<"#">> \o stop

\* An item of the table.  dow is -1 when the item has no dow attribute,
\* bus_id and source are "" when the attribute is missing.
Item(pk, sk, level, source, bus, dow) ==
    [PK |-> pk, SK |-> sk, level |-> level, source |-> source,
     bus_id |-> bus, dow |-> dow]

(***************************************************************************)
(* computeWeekdayPrior                                                     *)
(***************************************************************************)
\* refMs = centerMs - i * 7 * 24 * 60 * 60 * 1000
PriorRef(centerMs, i) == Instant(centerMs.day - i * WeekDays, centerMs.ms)
\* since = refMs - PRIOR_HALF_WIN_MIN * 60 * 1000
PriorSince(centerMs, i) == AddMs(PriorRef(centerMs, i), -(PRIOR_HALF_WIN_MIN * MinMs))
\* until = refMs + PRIOR_HALF_WIN_MIN * 60 * 1000 + 1
PriorUntil(centerMs, i) == AddMs(PriorRef(centerMs, i), PRIOR_HALF_WIN_MIN * MinMs + 1)

RECURSIVE FlatMap(_)
\* results.flatMap(r => r.Items || [])
FlatMap(results) ==
    IF results = << >> THEN << >> ELSE Head(results) \o FlatMap(Tail(results))

RECURSIVE SumSeq(_)
\* fs.reduce((a, b) => a + b, 0)
SumSeq(fs) == IF fs = << >> THEN 0 ELSE Head(fs) + SumSeq(Tail(fs))

\* (item.dow != null) ? item.dow : new Date(item.SK).getUTCDay()
ItemDow(item) == IF item.dow # -1 THEN item.dow ELSE getUTCDay(item.SK)

\* process.env, as far as the handler's arithmetic can leave its domain: the
\* variable PRIOR_K0 (an integer; PRIOR_K0 above is the value read when it is
\* not set)
VARIABLE env
EnvDefault == [PRIOR_K0 |-> PRIOR_K0]

\* the fallback { mu0: PRIOR_MU0, k0: Number(process.env.PRIOR_K0 ?? 2) };
\* mu0 = n / (20 * d)
FallbackPrior == [mu0 |-> [n |-> PRIOR_MU0, d |-> 1], k0 |-> env.PRIOR_K0]

PriorStrengthNoCap(n) == Max(PRIOR_K_MIN, n)
\* k0 = Math.min(PRIOR_K_MAX, Math.max(2, fs.length))
PriorStrength(n) == Min(PRIOR_K_MAX, Max(PRIOR_K_MIN, n))

computeWeekdayPriorAllDays(results, centerMs) ==
    LET all == FlatMap(results)
        fs == [k \in 1..Len(all) |-> levelToFrac(all[k].level)]
    IN  IF Len(all) = 0 THEN FallbackPrior
        ELSE [mu0 |-> [n |-> SumSeq(fs), d |-> Len(fs)],
              k0 |-> PriorStrength(Len(fs))]
\* The prior from the results of the PRIOR_LOOKBACK_WEEKS queries, in the
\* order of the queries (Promise.all keeps it).
computeWeekdayPrior(results, centerMs) ==
    LET dowTarget == getUTCDay(centerMs)
        all == FlatMap(results)
        sameDow == SelectSeq(all, LAMBDA item : ItemDow(item) = dowTarget)
        fs == [k \in 1..Len(sameDow) |-> levelToFrac(sameDow[k].level)]
    IN  IF Len(sameDow) = 0 THEN FallbackPrior
        ELSE [mu0 |-> [n |-> SumSeq(fs), d |-> Len(fs)],
              k0 |-> PriorStrength(Len(fs))]

(***************************************************************************)
(* The weighted fusion and the result                                      *)
(***************************************************************************)
\* Math.exp(-m / tau) for tau = TAU_MIN = 10 and m = 0, 1, 2, ... minutes,
\* in hundredths (rounded to the nearest hundredth).
ExpTable ==
    <<100, 90, 82, 74, 67, 61, 55, 50, 45, 41, 37, 33, 30, 27, 25, 22,
      20, 18, 17, 15, 14, 12, 11, 10, 9, 8, 7, 7, 6, 6, 5, 5, 4, 4, 3, 3,
      3, 2, 2, 2, 2, 2, 1, 1, 1, 1, 1, 1, 1, 1, 1, 1, 1>>

\* minutesAgo = Math.max(0, (centerMs - ts) / 60000), in milliseconds
MsAgo(centerMs, ts) == Max(0, DiffMs(centerMs, ts))

\* decay = Math.exp(-minutesAgo / tau), in hundredths, at the nearest minute
decay(msAgo) ==
    LET m == (msAgo + (MinMs \div 2)) \div MinMs
    IN  IF m < Len(ExpTable) THEN ExpTable[m + 1] ELSE 0

baseSwapped(r) == IF r.source = "driver" THEN wRider ELSE wDriver
\* base = (r.source === "driver") ? wDriver : wRider
base(r) == IF r.source = "driver" THEN wDriver ELSE wRider

sameBusPenalty(r, busId) == IF busId # "" /\ r.bus_id = busId THEN 1 ELSE noBonus
\* sameBusBonus = (busId && r.bus_id === busId) ? busBonus : 1.0, in halves
sameBusBonus(r, busId) == IF busId # "" /\ r.bus_id = busId THEN busBonus ELSE noBonus

SeedUnweighted(prior) ==
    [num |-> 1000 * prior.mu0.n, den |-> prior.k0 * 1000,
     u |-> prior.mu0.d, mu0 |-> prior.mu0,
     countDriver |-> 0, countRider |-> 0]
\* The accumulator: den in thousandths; num in units of 1/(1000 * 20 * u),
\* where u is the count under the prior mean (mu0 = n / (20 * u)).
\* let num = k0 * mu0, den = k0; let countDriver = 0, countRider = 0
Seed(prior) ==
    [num |-> prior.k0 * 1000 * prior.mu0.n, den |-> prior.k0 * 1000,
     u |-> prior.mu0.d, mu0 |-> prior.mu0,
     countDriver |-> 0, countRider |-> 0]

IsOutlierNever(acc, f) == FALSE
\* Math.abs(f - muTmp) > outDelta, with muTmp = den ? (num / den) : mu0
IsOutlier(acc, f) ==
    IF acc.den # 0
    THEN Abs(f * acc.u * acc.den - acc.num) > outDelta * acc.u * Abs(acc.den)
    ELSE Abs(f * acc.mu0.d - acc.mu0.n) > outDelta * acc.mu0.d

\* w = base * decay * sameBusBonus, times 0.6 for an outlier; in thousandths
Weight(acc, r, busId, centerMs) ==
    base(r) * decay(MsAgo(centerMs, r.SK)) * sameBusBonus(r, busId)
        * (IF IsOutlier(acc, levelToFrac(r.level)) THEN outlierFactor ELSE inlierFactor)

FoldStepKnownSources(acc, r, busId, centerMs) ==
    LET f == levelToFrac(r.level)
        w == Weight(acc, r, busId, centerMs)
    IN  [acc EXCEPT !.num = @ + acc.u * w * f,
                    !.den = @ + w,
                    !.countDriver = IF r.source = "driver" THEN @ + 1 ELSE @,
                    !.countRider = IF r.source = "rider" THEN @ + 1 ELSE @]
\* the body of the loop: for (const r of reports) { ... }
FoldStep(acc, r, busId, centerMs) ==
    LET f == levelToFrac(r.level)
        w == Weight(acc, r, busId, centerMs)
    IN  [acc EXCEPT !.num = @ + acc.u * w * f,
                    !.den = @ + w,
                    !.countDriver = IF r.source = "driver" THEN @ + 1 ELSE @,
                    !.countRider = IF r.source = "driver" THEN @ ELSE @ + 1]

RECURSIVE FoldFrom(_, _, _, _)
FoldFrom(acc, reports, busId, centerMs) ==
    IF reports = << >> THEN acc
    ELSE FoldFrom(FoldStep(acc, Head(reports), busId, centerMs),
                  Tail(reports), busId, centerMs)

\* the weighted fusion of the reports, in the order given
Fuse(prior, reports, busId, centerMs) == FoldFrom(Seed(prior), reports, busId, centerMs)

\* mu = den ? clamp(num / den, 0, 1) : mu0, as the fraction n/d with d > 0
Mu(acc) ==
    IF acc.den # 0
    THEN LET d == 20 * acc.u * Abs(acc.den)
             n == IF acc.den < 0 THEN -acc.num ELSE acc.num
         IN  [n |-> clamp(n, 0, d), d |-> d]
    ELSE [n |-> acc.mu0.n, d |-> 20 * acc.mu0.d]

LevelOfAbove(mu) ==
    IF 4 * mu.n <= mu.d THEN 1
    ELSE IF 2 * mu.n <= mu.d THEN 2
    ELSE IF 4 * mu.n <= 3 * mu.d THEN 3 ELSE 4
\* level = mu < 0.25 ? 1 : mu < 0.5 ? 2 : mu < 0.75 ? 3 : 4
LevelOf(mu) ==
    IF 4 * mu.n < mu.d THEN 1
    ELSE IF 2 * mu.n < mu.d THEN 2
    ELSE IF 4 * mu.n < 3 * mu.d THEN 3 ELSE 4

ConfidenceInclusive(den) ==
    IF den <= confLow * 1000 THEN "low"
    ELSE IF den <= confMed * 1000 THEN "med" ELSE "high"
\* confidence = kEff < 3 ? "low" : kEff < 6 ? "med" : "high"
Confidence(den) ==
    IF den < confLow * 1000 THEN "low"
    ELSE IF den < confMed * 1000 THEN "med" ELSE "high"

\* mu in thousandths, rounded down
MuMilli(mu) == (50 * mu.n) \div (mu.d \div 20)

\* sigma = Math.sqrt(mu * (1 - mu) / (kEff + 1)), in thousandths
Sigma(mu, den) ==
    LET m == MuMilli(mu)
    IN  ISqrt((m * (1000 - m) * 1000) \div (den + 1000))

\* Math.round(x * CAP) for x in thousandths
RoundMilliCap(x) == (2 * CAP * x + 1000) \div 2000

CI68Reversed(mu, den) ==
    <<RoundMilliCap(clamp(MuMilli(mu) + Sigma(mu, den), 0, 1000)),
      RoundMilliCap(clamp(MuMilli(mu) - Sigma(mu, den), 0, 1000))>>
\* ci68 = [round(clamp(mu - sigma, 0, 1) * CAP), round(clamp(mu + sigma, 0, 1) * CAP)]
\* With kEff + 1 = 0 the quotient under the root is Infinity (or NaN, for
\* 0 / 0); with kEff + 1 < 0 it is negative and the root NaN (or -0, for
\* mu * (1 - mu) = 0).  Math.round(NaN) is NaN, which JSON prints as null.
CI68(mu, den) ==
    LET flat == mu.n = 0 \/ mu.n = mu.d
    IN  IF den + 1000 > 0
        THEN <<RoundMilliCap(clamp(MuMilli(mu) - Sigma(mu, den), 0, 1000)),
               RoundMilliCap(clamp(MuMilli(mu) + Sigma(mu, den), 0, 1000))>>
        ELSE IF den + 1000 = 0 /\ ~flat THEN <<0, CAP>>
        ELSE IF den + 1000 < 0 /\ flat
             THEN <<RoundMilliCap(MuMilli(mu)), RoundMilliCap(MuMilli(mu))>>
        ELSE <<"null", "null">>

\* a prior mean as JSON.stringify prints it: the value, whatever the sum and
\* the count it was computed from
JsonFrac(f) == LET g == Gcd(f.n, f.d) IN [n |-> f.n \div g, d |-> f.d \div g]

\* The fields of the response body computed from the fold.
Result(prior, reports, busId, centerMs) ==
    LET acc == Fuse(prior, reports, busId, centerMs)
        mu == Mu(acc)
        est == RoundCap(mu.n, mu.d)
    IN  [level |-> LevelOf(mu),
         est_headcount |-> est,
         headcount_ci68 |-> CI68(mu, acc.den),
         remaining_capacity |-> Max(0, CAP - est),
         confidence |-> Confidence(acc.den),
         counts |-> [reports |-> Len(reports), driver |-> acc.countDriver,
                     rider |-> acc.countRider],
         prior |-> [mu0 |-> JsonFrac([n |-> prior.mu0.n, d |-> 20 * prior.mu0.d]),
                    k0 |-> prior.k0],
         mu |-> JsonFrac(mu),
         kEff |-> acc.den]

(***************************************************************************)
(* The table and the requests                                              *)
(***************************************************************************)
VARIABLES
    store,        \* the items of the table
    now,          \* Date.now()
    pc,           \* where each invocation of lambdaHandler is
    req,          \* its event.queryStringParameters
    centerMs,     \* its centre instant
    queries,      \* the state of its PRIOR_LOOKBACK_WEEKS prior-window queries
    results,      \* what those queries returned
    current,      \* the state of its current-window query
    prior,        \* { mu0, k0 }
    reports,      \* the Items of the current-window query, as returned
    acc,          \* num, den and the counters after the loop
    resp,         \* the response body
    storeFailed,  \* whether a query of the invocation was rejected
    stalled,      \* whether the store has stopped answering the invocation
    sent,         \* how many times the invocation has called ddb.send
    ipc,          \* where each invocation of the report handler is
    ibody,        \* its parsed event.body, and which handler it runs
    iitem,        \* the item it has built
    iraw,         \* what its event.body held: "object", "null" or "text"
    messages,     \* the message list of the chat widget
    cpc,          \* where each call of sendLLMMessage is
    streamAcc     \* its acc: the text of the reply read so far

\* the variables of the report handler
ingest == <<ipc, ibody, iitem, iraw>>

\* the variables of the chat widget
chat == <<messages, cpc, streamAcc>>

vars == <<store, now, pc, req, centerMs, queries, results, current, prior,
          reports, acc, resp, storeFailed, stalled, sent, env, ipc, ibody, iitem, iraw,
          messages, cpc, streamAcc>>

\* the invocations that may be in flight together
Procs == {"a", "b"}

Weeks == 1..PRIOR_LOOKBACK_WEEKS

\* An event: q.at is absent ("none"), an instant ("iso": an ISO string or
\* a number of milliseconds) or unparsable ("bad"); q.win is absent or a
\* number of minutes; q.bus_id is "" when absent.
Request(route, stop, bus, at, win) ==
    [route |-> route, stop |-> stop, bus_id |-> bus, at |-> at, win |-> win]
AtNone == [kind |-> "none", t |-> Instant(0, 0)]
AtIso(t) == [kind |-> "iso", t |-> t]
AtBad == [kind |-> "bad", t |-> Instant(0, 0)]
WinNone == [kind |-> "none", n |-> 0]
WinNum(n) == [kind |-> "num", n |-> n]

\* centerMs = atParam ? (isNaN(+atParam) ? Date.parse(atParam) : +atParam) : Date.now()
CenterOf(q, t) == IF q.at.kind = "none" THEN t ELSE q.at.t
\* windowMin = Number(q.win || 15)
WindowMin(q) == IF q.win.kind = "none" THEN WIN_DEFAULT ELSE q.win.n
\* sinceIso = new Date(centerMs - windowMin * 60 * 1000).toISOString()
SinceIso(q, c) == AddMs(c, -(WindowMin(q) * MinMs))
\* untilIso = new Date(centerMs + 1).toISOString()
UntilIso(c) == AddMs(c, 1)
\* busId = q.bus_id || null
BusId(q) == q.bus_id

\* KeyConditionExpression: "PK = :pk AND SK BETWEEN :since AND :until"
Query(pk, since, until) ==
    {it \in store : it.PK = pk /\ IsoLeq(since, it.SK) /\ IsoLeq(it.SK, until)}

AfterQueryConsuming(s, items) == s \ {items[k] : k \in 1..Len(items)}
\* the table after ddb.send(new QueryCommand(...)) has returned items: a
\* query reads
AfterQuery(s, items) == s

PriorQuery(q, c, i) ==
    Query(PartitionKey(q.route, q.stop), PriorSince(c, i), PriorUntil(c, i))
CurrentQuery(q, c) ==
    Query(PartitionKey(q.route, q.stop), SinceIso(q, c), UntilIso(c))

RECURSIVE Ascending(_)
\* the items of S by ascending sort key
Ascending(S) ==
    IF S = {} THEN << >>
    ELSE LET first == CHOOSE x \in S : \A y \in S : IsoLeq(x.SK, y.SK)
         IN  <<first>> \o Ascending(S \ {first})

Reverse(sq) == [k \in 1..Len(sq) |-> sq[Len(sq) + 1 - k]]

\* every order of the items of S
AllOrders(S) ==
    {f \in [1..Cardinality(S) -> S] : \A i, j \in 1..Cardinality(S) : f[i] = f[j] => i = j}

(***************************************************************************)
(* Bounds of the model                                                     *)
(***************************************************************************)
\* up to this many items, a query returns them in any order; above it, in
\* ascending or in descending order of the sort key
MaxShuffle == 2
\* the clock advances at most this many milliseconds
MaxTicks == 1
\* a history holds at most this many reports of the weekday
MaxHistory == 11
\* a current window holds at most this many reports
MaxReports == 2

\* The orders in which the store may return the items S of a query.
ReturnOrders(S) ==
    IF Cardinality(S) <= MaxShuffle THEN AllOrders(S)
    ELSE {Ascending(S), Reverse(Ascending(S))}

\* The clock at the start: 2025-10-19T07:35:00Z (a Sunday)
Start == Instant(20380, 27300000)

(***************************************************************************)
(* lambdaHandler                                                           *)
(***************************************************************************)
NoRequest == Request(<< >>, << >>, "", AtNone, WinNone)
NoBody == [statusCode |-> 0]

\* JSON.stringify({ route, stop, bus_id: busId, level, ..., ts: Date.now(), prior })
Body(q, res, ts) ==
    [statusCode |-> 200,
     route |-> q.route, stop |-> q.stop, bus_id |-> BusId(q),
     level |-> res.level,
     est_headcount |-> res.est_headcount,
     headcount_ci68 |-> res.headcount_ci68,
     remaining_capacity |-> res.remaining_capacity,
     confidence |-> res.confidence,
     counts |-> res.counts,
     window_min |-> WindowMin(q),
     ts |-> ts,
     prior |-> res.prior]

\* The handler starts: it parses the event and, in computeWeekdayPrior,
\* sends the prior-window queries.  new Date(NaN).toISOString() throws.
Invoke(p, q) ==
    /\ pc[p] = "idle"
    /\ req' = [req EXCEPT ![p] = q]
    /\ IF q.at.kind = "bad"
       THEN /\ pc' = [pc EXCEPT ![p] = "threw"]
            /\ UNCHANGED <<centerMs, queries, sent>>
       ELSE /\ pc' = [pc EXCEPT ![p] = "prior"]
            /\ centerMs' = [centerMs EXCEPT ![p] = CenterOf(q, now)]
            /\ queries' = [queries EXCEPT ![p] = [i \in Weeks |-> "pending"]]
            /\ sent' = [sent EXCEPT ![p] = @ + PRIOR_LOOKBACK_WEEKS]
    /\ UNCHANGED <<store, now, results, current, prior, reports, acc, resp, storeFailed,
                   stalled, env, ingest, chat>>

\* The store answers prior-window query i.  When it is the last one,
\* Promise.all resolves: the prior is computed and the handler sends the
\* current-window query.
StoreAnswerPriorLatest(p, i) ==
    /\ pc[p] = "prior"
    /\ ~stalled[p]
    /\ queries[p][i] = "pending"
    /\ \E items \in ReturnOrders(PriorQuery(req[p], centerMs[p], i)) :
          LET got == [j \in Weeks |-> IF j = i THEN items ELSE << >>]
              last == \A j \in Weeks \ {i} : queries[p][j] = "ok"
          IN  /\ store' = AfterQuery(store, items)
              /\ results' = [results EXCEPT ![p] = got]
              /\ queries' = [queries EXCEPT ![p][i] = "ok"]
              /\ IF last
                 THEN /\ prior' = [prior EXCEPT ![p] = computeWeekdayPrior(got, centerMs[p])]
                      /\ pc' = [pc EXCEPT ![p] = "current"]
                      /\ current' = [current EXCEPT ![p] = "pending"]
                      /\ sent' = [sent EXCEPT ![p] = @ + 1]
                 ELSE UNCHANGED <<prior, pc, current, sent>>
    /\ UNCHANGED <<now, req, centerMs, reports, acc, resp, storeFailed, stalled, env, ingest, chat>>
StoreAnswerPriorFirst(p, i) ==
    /\ pc[p] = "prior"
    /\ ~stalled[p]
    /\ queries[p][i] = "pending"
    /\ \E items \in ReturnOrders(PriorQuery(req[p], centerMs[p], i)) :
          LET got == [results[p] EXCEPT ![i] = items]
          IN  /\ store' = AfterQuery(store, items)
              /\ results' = [results EXCEPT ![p] = got]
              /\ queries' = [queries EXCEPT ![p][i] = "ok"]
              /\ prior' = [prior EXCEPT ![p] = computeWeekdayPrior(got, centerMs[p])]
              /\ pc' = [pc EXCEPT ![p] = "current"]
              /\ current' = [current EXCEPT ![p] = "pending"]
              /\ sent' = [sent EXCEPT ![p] = @ + 1]
    /\ UNCHANGED <<now, req, centerMs, reports, acc, resp, storeFailed, stalled, env, ingest, chat>>
StoreAnswerPrior(p, i) ==
    /\ pc[p] = "prior"
    /\ ~stalled[p]
    /\ queries[p][i] = "pending"
    /\ \E items \in ReturnOrders(PriorQuery(req[p], centerMs[p], i)) :
          LET got == [results[p] EXCEPT ![i] = items]
              last == \A j \in Weeks \ {i} : queries[p][j] = "ok"
          IN  /\ store' = AfterQuery(store, items)
              /\ results' = [results EXCEPT ![p] = got]
              /\ queries' = [queries EXCEPT ![p][i] = "ok"]
              /\ IF last
                 THEN /\ prior' = [prior EXCEPT ![p] = computeWeekdayPrior(got, centerMs[p])]
                      /\ pc' = [pc EXCEPT ![p] = "current"]
                      /\ current' = [current EXCEPT ![p] = "pending"]
                      /\ sent' = [sent EXCEPT ![p] = @ + 1]
                 ELSE UNCHANGED <<prior, pc, current, sent>>
    /\ UNCHANGED <<now, req, centerMs, reports, acc, resp, storeFailed, stalled, env, ingest, chat>>

\* The store rejects prior-window query i: Promise.all rejects, the await
\* in the handler throws and nothing catches it; the results of the other
\* queries are dropped with the frame.
StoreRejectPrior(p, i) ==
    /\ pc[p] = "prior"
    /\ queries[p][i] = "pending"
    /\ queries' = [queries EXCEPT ![p] = [j \in Weeks |-> "unsent"]]
    /\ results' = [results EXCEPT ![p] = [j \in Weeks |-> << >>]]
    /\ pc' = [pc EXCEPT ![p] = "threw"]
    /\ storeFailed' = [storeFailed EXCEPT ![p] = TRUE]
    /\ UNCHANGED <<store, now, req, centerMs, current, prior, reports, acc, resp, stalled,
                   sent, env, ingest, chat>>

\* The store answers the current-window query: the handler folds the
\* reports in the order returned and responds.
StoreAnswerCurrentShared(p) ==
    /\ pc[p] = "current"
    /\ ~stalled[p]
    /\ current[p] = "pending"
    /\ \E items \in ReturnOrders(CurrentQuery(req[p], centerMs[p])) :
          LET o == CHOOSE o \in Procs : o # p
              pr == IF pc[o] \in {"current", "done"} THEN prior[o] ELSE prior[p]
          IN  /\ store' = AfterQuery(store, items)
              /\ reports' = [reports EXCEPT ![p] = items]
              /\ acc' = [acc EXCEPT ![p] = Fuse(pr, items, BusId(req[p]), centerMs[p])]
              /\ resp' = [resp EXCEPT ![p] =
                    Body(req[p], Result(pr, items, BusId(req[p]), centerMs[p]), now)]
    /\ current' = [current EXCEPT ![p] = "ok"]
    /\ pc' = [pc EXCEPT ![p] = "done"]
    /\ UNCHANGED <<now, req, centerMs, queries, results, prior, storeFailed, stalled,
                   sent, env, ingest, chat>>
StoreAnswerCurrent(p) ==
    /\ pc[p] = "current"
    /\ ~stalled[p]
    /\ current[p] = "pending"
    /\ \E items \in ReturnOrders(CurrentQuery(req[p], centerMs[p])) :
          /\ store' = AfterQuery(store, items)
          /\ reports' = [reports EXCEPT ![p] = items]
          /\ acc' = [acc EXCEPT ![p] = Fuse(prior[p], items, BusId(req[p]), centerMs[p])]
          /\ resp' = [resp EXCEPT ![p] =
                Body(req[p], Result(prior[p], items, BusId(req[p]), centerMs[p]), now)]
    /\ current' = [current EXCEPT ![p] = "ok"]
    /\ pc' = [pc EXCEPT ![p] = "done"]
    /\ UNCHANGED <<now, req, centerMs, queries, results, prior, storeFailed, stalled,
                   sent, env, ingest, chat>>

\* The store rejects the current-window query: the handler throws.
StoreRejectCurrent(p) ==
    /\ pc[p] = "current"
    /\ current[p] = "pending"
    /\ current' = [current EXCEPT ![p] = "unsent"]
    /\ queries' = [queries EXCEPT ![p] = [j \in Weeks |-> "unsent"]]
    /\ results' = [results EXCEPT ![p] = [j \in Weeks |-> << >>]]
    /\ pc' = [pc EXCEPT ![p] = "threw"]
    /\ storeFailed' = [storeFailed EXCEPT ![p] = TRUE]
    /\ UNCHANGED <<store, now, req, centerMs, prior, reports, acc, resp, stalled,
                   sent, env, ingest, chat>>

\* The store stops answering: the queries of the invocation that are still
\* pending never complete.  The handler sets no deadline on its awaits.
StoreStall(p) ==
    /\ pc[p] \in {"prior", "current"}
    /\ ~stalled[p]
    /\ stalled' = [stalled EXCEPT ![p] = TRUE]
    /\ UNCHANGED <<store, now, pc, req, centerMs, queries, results, current, prior,
                   reports, acc, resp, storeFailed, sent, env, ingest, chat>>

\* A millisecond passes.
Tick ==
    /\ DiffMs(now, Start) < MaxTicks
    /\ now' = AddMs(now, 1)
    /\ UNCHANGED <<store, pc, req, centerMs, queries, results, current, prior,
                   reports, acc, resp, storeFailed, stalled, sent, env, ingest, chat>>

RECURSIVE PriorAnswers(_, _, _)
\* what the first i prior-window queries may return
PriorAnswers(q, c, i) ==
    IF i = 0 THEN {<< >>}
    ELSE {Append(sq, items) : sq \in PriorAnswers(q, c, i - 1),
                              items \in ReturnOrders(PriorQuery(q, c, i))}

\* One whole invocation against a store that answers every query: the
\* steps Invoke, StoreAnswerPrior (PRIOR_LOOKBACK_WEEKS times) and
\* StoreAnswerCurrent in one.
Estimate(p, q) ==
    /\ pc[p] = "idle"
    /\ q.at.kind # "bad"
    /\ LET c == CenterOf(q, now)
       IN  \E got \in PriorAnswers(q, c, PRIOR_LOOKBACK_WEEKS) :
           \E items \in ReturnOrders(CurrentQuery(q, c)) :
              LET pr == computeWeekdayPrior(got, c)
              IN  /\ req' = [req EXCEPT ![p] = q]
                  /\ centerMs' = [centerMs EXCEPT ![p] = c]
                  /\ queries' = [queries EXCEPT ![p] = [i \in Weeks |-> "ok"]]
                  /\ results' = [results EXCEPT ![p] = got]
                  /\ prior' = [prior EXCEPT ![p] = pr]
                  /\ current' = [current EXCEPT ![p] = "ok"]
                  /\ reports' = [reports EXCEPT ![p] = items]
                  /\ acc' = [acc EXCEPT ![p] = Fuse(pr, items, BusId(q), c)]
                  /\ resp' = [resp EXCEPT ![p] = Body(q, Result(pr, items, BusId(q), c), now)]
                  /\ pc' = [pc EXCEPT ![p] = "done"]
                  /\ store' = AfterQuery(AfterQuery(store, FlatMap(got)), items)
                  /\ sent' = [sent EXCEPT ![p] = @ + PRIOR_LOOKBACK_WEEKS + 1]
    /\ UNCHANGED <<now, storeFailed, stalled, env, ingest, chat>>

(***************************************************************************)
(* The handler in IEEE-754 doubles, for a current window that is empty or  *)
(* holds only reports stamped at or after the centre (minutesAgo = 0 and   *)
(* decay = exp(0) = 1) that are inside the outlier band, so that every     *)
(* weight is 1, 1.5, 3 or 4.5.                                             *)
(*                                                                         *)
(* A double x with 1/8 <= x < 128 is a multiple of 2^-55; it is held as    *)
(* the integer x * 2^55 in three limbs of 21 bits, <<high, middle, low>>.  *)
(* Sums, products with a small integer and quotients by a small integer    *)
(* are computed exactly and then rounded to 53 significant bits, ties to   *)
(* even, as the arithmetic of the language does.                           *)
(***************************************************************************)
Limb == 2097152

RECURSIVE BitLen(_)
BitLen(a) == IF a = 0 THEN 0 ELSE 1 + BitLen(a \div 2)

RECURSIVE Pow2(_)
Pow2(k) == IF k = 0 THEN 1 ELSE 2 * Pow2(k - 1)

\* limbs that have grown beyond 21 bits, brought back
Carry(x) ==
    LET mid == x[2] + x[3] \div Limb
    IN  <<x[1] + mid \div Limb, mid % Limb, x[3] % Limb>>

\* the double nearest to x + r / n (0 <= r < n), ties to even
RoundD(x, r, n) ==
    LET sh == BitLen(x[1]) - 11
        u == Pow2(sh)
        low == x[3] % u
        kept == x[3] - low
        twice == 2 * low * n + 2 * r
        up == \/ twice > u * n
              \/ twice = u * n /\ (kept \div u) % 2 = 1
    IN  Carry(<<x[1], x[2], IF up THEN kept + u ELSE kept>>)

\* a + b, a * k and a / n of two doubles and small integers k and n
AddD(x, y) == RoundD(Carry(<<x[1] + y[1], x[2] + y[2], x[3] + y[3]>>), 0, 1)
MulD(x, k) == RoundD(Carry(<<x[1] * k, x[2] * k, x[3] * k>>), 0, 1)
DivD(x, n) ==
    LET t2 == (x[1] % n) * Limb + x[2]
        t3 == (t2 % n) * Limb + x[3]
    IN  RoundD(<<x[1] \div n, t2 \div n, t3 \div n>>, t3 % n, n)

\* Math.round of a double
RoundHalfUp(x) == (x[1] + 4096) \div 8192

\* the doubles 0.15, 0.35, 0.65 and 0.90 of levelToFrac, by their number of
\* twentieths
FracD(t) ==
    IF t = 3 THEN <<1228, 1677721, 1258291>>
    ELSE IF t = 7 THEN <<2867, 419430, 838860>>
    ELSE IF t = 13 THEN <<5324, 1677721, 1258292>>
    ELSE <<7372, 1677721, 1258292>>

RECURSIVE SumD(_, _)
\* fs.reduce((a, b) => a + b, 0) from the k-th fraction on, a so far
SumD(fs, a) ==
    IF fs = << >> THEN a
    ELSE LET b == AddD(a, FracD(Head(fs)))
         IN  IF b[1] >= 0 THEN SumD(Tail(fs), b) ELSE b

RECURSIVE InBand(_, _, _, _)
\* every report of rs is stamped at or after the centre c and differs from
\* the running mean, a being the accumulator so far, by less than outDelta
InBand(a, rs, busId, c) ==
    IF Len(rs) = 0 THEN TRUE
    ELSE LET r == Head(rs)
             f == levelToFrac(r.level)
         IN  /\ DiffMs(c, r.SK) <= 0
             /\ a.den > 0
             /\ Abs(f * a.u * a.den - a.num) < outDelta * a.u * a.den
             /\ InBand(FoldStep(a, r, busId, c), Tail(rs), busId, c)

\* let num = k0 * mu0, den = k0; den is held in halves
SeedD(mu0, k0) == [num |-> MulD(mu0, k0), den2 |-> 2 * k0]

StepDNoDen(a, r, busId) ==
    LET w2 == base(r) * sameBusBonus(r, busId)
        wf == DivD(MulD(FracD(levelToFrac(r.level)), w2), 2)
    IN  [num |-> AddD(a.num, wf), den2 |-> a.den2]
\* num += w * f; den += w, with w = base * 1 * sameBusBonus, w2 = 2 * w
StepD(a, r, busId) ==
    LET w2 == base(r) * sameBusBonus(r, busId)
        wf == DivD(MulD(FracD(levelToFrac(r.level)), w2), 2)
    IN  [num |-> AddD(a.num, wf), den2 |-> a.den2 + w2]

RECURSIVE FoldD(_, _, _)
FoldD(a, rs, busId) ==
    IF Len(rs) = 0 THEN a
    ELSE LET b == StepD(a, Head(rs), busId)
         IN  IF b.num[1] >= 0 THEN FoldD(b, Tail(rs), busId) ELSE b

\* num / den
MeanD(a) == DivD(MulD(a.num, 2), a.den2)

\* clamp(x, 0, 1) of a positive double
ClampD(x) == IF x[1] >= 8192 THEN <<8192, 0, 0>> ELSE x

\* the prior of computeWeekdayPrior
PriorD(got, center) ==
    LET all == FlatMap(got)
        sameDow == SelectSeq(all, LAMBDA item : ItemDow(item) = getUTCDay(center))
        fs == [k \in 1..Len(sameDow) |-> levelToFrac(sameDow[k].level)]
    IN  IF Len(sameDow) = 0 THEN [mu0 |-> FracD(PRIOR_MU0), k0 |-> env.PRIOR_K0]
        ELSE [mu0 |-> DivD(SumD(Tail(fs), FracD(Head(fs))), Len(fs)),
              k0 |-> PriorStrength(Len(fs))]

\* computeWeekdayPrior, the fold, and the results that depend on mu
ResultDouble(got, items, busId, center) ==
    LET pr == PriorD(got, center)
        mu == ClampD(MeanD(FoldD(SeedD(pr.mu0, pr.k0), items, busId)))
        est == RoundHalfUp(MulD(mu, CAP))
    IN  [mu0 |-> pr.mu0, k0 |-> pr.k0, mu |-> mu,
         est_headcount |-> est,
         level |-> IF mu[1] < 2048 THEN 1 ELSE IF mu[1] < 4096 THEN 2
                   ELSE IF mu[1] < 6144 THEN 3 ELSE 4,
         remaining_capacity |-> Max(0, CAP - est)]

\* One invocation, from the request to the response, for a window that
\* these doubles cover; est_headcount, remaining_capacity and level of the
\* response are the ones computed in doubles.
EstimateDouble(p, q) ==
    /\ pc[p] = "idle"
    /\ q.at.kind # "bad"
    /\ LET c == CenterOf(q, now)
       IN  \E got \in PriorAnswers(q, c, PRIOR_LOOKBACK_WEEKS) :
           \E items \in ReturnOrders(CurrentQuery(q, c)) :
              LET pr == computeWeekdayPrior(got, c)
                  dbl == ResultDouble(got, items, BusId(q), c)
              IN  /\ InBand(Seed(pr), items, BusId(q), c)
                  /\ req' = [req EXCEPT ![p] = q]
                  /\ centerMs' = [centerMs EXCEPT ![p] = c]
                  /\ queries' = [queries EXCEPT ![p] = [i \in Weeks |-> "ok"]]
                  /\ results' = [results EXCEPT ![p] = got]
                  /\ prior' = [prior EXCEPT ![p] = pr]
                  /\ current' = [current EXCEPT ![p] = "ok"]
                  /\ reports' = [reports EXCEPT ![p] = items]
                  /\ acc' = [acc EXCEPT ![p] = Fuse(pr, items, BusId(q), c)]
                  /\ resp' = [resp EXCEPT ![p] =
                        [Body(q, Result(pr, items, BusId(q), c), now)
                            EXCEPT !.est_headcount = dbl.est_headcount,
                                   !.remaining_capacity = dbl.remaining_capacity,
                                   !.level = dbl.level]]
                  /\ pc' = [pc EXCEPT ![p] = "done"]
                  /\ store' = AfterQuery(AfterQuery(store, FlatMap(got)), items)
                  /\ sent' = [sent EXCEPT ![p] = @ + PRIOR_LOOKBACK_WEEKS + 1]
    /\ UNCHANGED <<now, storeFailed, stalled, env, ingest, chat>>

(***************************************************************************)
(* The report handler: report/app.js ("plain") and its later version with  *)
(* CORS headers and a dow attribute ("cors")                               *)
(***************************************************************************)
\* the invocations of the report handler that may be in flight together
IProcs == {"x", "y"}

\* JSON.parse(event.body): hdl names the handler that runs; route and stop
\* are << >> and source and bus_id are "" when the body has none
ReportBody(hdl, route, stop, bus, source, level) ==
    [hdl |-> hdl, route |-> route, stop |-> stop, bus_id |-> bus, source |-> source,
     level |-> level]
NoReportBody == ReportBody("plain", << >>, << >>, "", "", LvMissing)
NoItem == Item(<< >>, Instant(0, 0), LvMissing, "", "", -1)

\* whether a level is truthy: !level is false
Truthy(lv) ==
    CASE lv.t = "num" -> lv.n # 0
      [] lv.t = "bool" -> lv.n = 1
      [] lv.t = "str" -> lv.s # ""
      [] OTHER -> FALSE

\* a level the handler has made a number of: Number(b.level), NaN included
LvNaN == [t |-> "nan", n |-> 0, s |-> ""]
NumberLevel(lv) == IF Number(lv).nan THEN LvNaN ELSE LvNum(Number(lv).n)

\* `${route}` in a template literal: a missing route prints as undefined
Interpolate(x) ==
    IF x = << >> THEN <<"u", "n", "d", "e", "f", "i", "n", "e", "d">> ELSE x

\* if (!route || !stop || !level) return { statusCode: 400, ... }
Refused(b) == b.hdl = "plain" /\ (b.route = << >> \/ b.stop = << >> \/ ~Truthy(b.level))

\* const item = { PK: `REPORT#${route}#${stop}`, SK: now, ... }, built at
\* instant t; only the later version converts the level and writes dow
BuildItem(b, t) ==
    Item(PartitionKey(Interpolate(b.route), Interpolate(b.stop)), t,
         IF b.hdl = "plain" THEN b.level ELSE NumberLevel(b.level),
         IF b.source = "" THEN "rider" ELSE b.source,
         b.bus_id,
         IF b.hdl = "plain" THEN -1 ELSE getUTCDay(t))

\* the table after PutCommand: the item replaces the one of its key (PK, SK)
Put(s, item) == {x \in s : ~(x.PK = item.PK /\ x.SK = item.SK)} \cup {item}

\* The handler starts: it parses the body, validates it (the first version
\* only), reads the clock, builds the item and sends the PutCommand.
Receive(h, b) ==
    /\ ipc[h] = "idle"
    /\ ibody' = [ibody EXCEPT ![h] = b]
    /\ iraw' = [iraw EXCEPT ![h] = "object"]
    /\ IF Refused(b)
       THEN /\ ipc' = [ipc EXCEPT ![h] = "400"]
            /\ UNCHANGED iitem
       ELSE /\ ipc' = [ipc EXCEPT ![h] = "put"]
            /\ iitem' = [iitem EXCEPT ![h] = BuildItem(b, now)]
    /\ UNCHANGED <<store, now, pc, req, centerMs, queries, results, current, prior,
                   reports, acc, resp, storeFailed, stalled, sent, env, chat>>

\* The table takes the item and the handler responds 200.
PutAnswer(h) ==
    /\ ipc[h] = "put"
    /\ iitem[h].level.t # "nan"
    /\ store' = Put(store, iitem[h])
    /\ ipc' = [ipc EXCEPT ![h] = "200"]
    /\ UNCHANGED <<now, pc, req, centerMs, queries, results, current, prior,
                   reports, acc, resp, storeFailed, stalled, sent, env, ibody, iitem, iraw, chat>>

\* ddb.send rejects: the table fails, or the document client refuses to
\* marshall a NaN.  The first version catches it and responds 500; the
\* later version has no try/catch.
PutReject(h) ==
    /\ ipc[h] = "put"
    /\ ipc' = [ipc EXCEPT ![h] = IF ibody[h].hdl = "plain" THEN "500" ELSE "threw"]
    /\ UNCHANGED <<store, now, pc, req, centerMs, queries, results, current, prior,
                   reports, acc, resp, storeFailed, stalled, sent, env, ibody, iitem, iraw, chat>>

\* The handler starts with a body it cannot take apart: text that is not
\* JSON, for which JSON.parse throws a SyntaxError, or the text null, which
\* parses to null and cannot be destructured (a TypeError; the later
\* version reads b.route of null).  The first version catches it and
\* responds 500; the later version has no try/catch.
ReceiveBroken(h, hdl, raw) ==
    /\ ipc[h] = "idle"
    /\ raw \in {"text", "null"}
    /\ ibody' = [ibody EXCEPT ![h] = [NoReportBody EXCEPT !.hdl = hdl]]
    /\ iraw' = [iraw EXCEPT ![h] = raw]
    /\ ipc' = [ipc EXCEPT ![h] = IF hdl = "plain" THEN "500" ELSE "threw"]
    /\ UNCHANGED <<store, now, pc, req, centerMs, queries, results, current, prior,
                   reports, acc, resp, storeFailed, stalled, sent, env, iitem, chat>>

(***************************************************************************)
(* The chat widget: sendLLMMessage, in both versions of the page           *)
(***************************************************************************)
\* at most this many messages are sent
MaxSends == 2
\* a reply arrives in at most this many chunks
MaxChunks == 2

\* the calls of sendLLMMessage, in the order the messages are sent
Sends == 1..MaxSends

\* A piece of text: the question of call c, a chunk of the reply streamed
\* to it, or the error text written for it.
Piece(c, kind) == [of |-> c, kind |-> kind]

\* { type: 'user', text: userText } and { type: 'bot', text }
UserMessage(c) == [type |-> "user", text |-> <<Piece(c, "question")>>]
BotMessage(text) == [type |-> "bot", text |-> text]

\* const copy = [...prev]; copy[copy.length - 1] = { type: 'bot', text };
\* which call writes does not enter
ReplaceLast(prev, text) ==
    IF Len(prev) = 0 THEN prev ELSE [prev EXCEPT ![Len(prev)] = BotMessage(text)]

\* the variables of the estimator and the table
backend == <<store, now, pc, req, centerMs, queries, results, current, prior,
             reports, acc, resp, storeFailed, stalled, sent, env>>

\* sendLLMMessage(userText) up to its first await: the user message and an
\* empty bot placeholder are appended, and the request is posted.
SendMessage(c) ==
    /\ cpc[c] = "idle"
    /\ \A d \in Sends : d < c => cpc[d] # "idle"
    /\ messages' = messages \o <<UserMessage(c), BotMessage(<< >>)>>
    /\ cpc' = [cpc EXCEPT ![c] = "reading"]
    /\ UNCHANGED <<streamAcc, backend, ingest>>

\* reader.read() resolves with a chunk: acc += decoder.decode(value), and
\* the last message of the list becomes { type: 'bot', text: acc }.
ReadChunk(c) ==
    /\ cpc[c] = "reading"
    /\ Len(streamAcc[c]) < MaxChunks
    /\ streamAcc' = [streamAcc EXCEPT ![c] = Append(@, Piece(c, "chunk"))]
    /\ messages' = ReplaceLast(messages, streamAcc'[c])
    /\ UNCHANGED <<cpc, backend, ingest>>

\* reader.read() resolves with done: the loop ends.
ReadDone(c) ==
    /\ cpc[c] = "reading"
    /\ cpc' = [cpc EXCEPT ![c] = "done"]
    /\ UNCHANGED <<messages, streamAcc, backend, ingest>>

\* fetch or reader.read() rejects, or the response is not ok: the last
\* message of the list is replaced by an error text.
ReadFails(c) ==
    /\ cpc[c] = "reading"
    /\ messages' = ReplaceLast(messages, <<Piece(c, "error")>>)
    /\ cpc' = [cpc EXCEPT ![c] = "failed"]
    /\ UNCHANGED <<streamAcc, backend, ingest>>

\* The widget is mounted: useState<Message[]>([]).
InitChat ==
    /\ messages = << >>
    /\ cpc = [c \in Sends |-> "idle"]
    /\ streamAcc = [c \in Sends |-> << >>]

\* Before any report.
InitIngest ==
    /\ ipc = [h \in IProcs |-> "idle"]
    /\ ibody = [h \in IProcs |-> NoReportBody]
    /\ iitem = [h \in IProcs |-> NoItem]
    /\ iraw = [h \in IProcs |-> "object"]

(***************************************************************************)
(* Stores and requests of the model                                        *)
(***************************************************************************)
RouteCC == <<"C", "C">>
StopA == <<"A">>
PkCCA == PartitionKey(RouteCC, StopA)

\* a report written msAgo milliseconds before Start
Report(msAgo, level, source, bus) ==
    Item(PkCCA, AddMs(Start, -msAgo), level, source, bus, -1)
\* a report written `week` weeks and offMin minutes before Start
Past(week, offMin, level, dow) ==
    Item(PkCCA, AddMs(PriorRef(Start, week), -(offMin * MinMs)), level, "rider", "", dow)

\* Before any invocation, the clock at t.
InitLocalsAt(t) ==
    /\ now = t
    /\ pc = [p \in Procs |-> "idle"]
    /\ req = [p \in Procs |-> NoRequest]
    /\ centerMs = [p \in Procs |-> Start]
    /\ queries = [p \in Procs |-> [i \in Weeks |-> "unsent"]]
    /\ results = [p \in Procs |-> [i \in Weeks |-> << >>]]
    /\ current = [p \in Procs |-> "unsent"]
    /\ prior = [p \in Procs |-> FallbackPrior]
    /\ reports = [p \in Procs |-> << >>]
    /\ acc = [p \in Procs |-> Seed(FallbackPrior)]
    /\ resp = [p \in Procs |-> NoBody]
    /\ storeFailed = [p \in Procs |-> FALSE]
    /\ stalled = [p \in Procs |-> FALSE]
    /\ sent = [p \in Procs |-> 0]

InitLocals == InitLocalsAt(Start)

\* a driver and a rider report of the same minute, on two buses
TwoReports ==
    {Report(MinMs, LvNum(4), "driver", "01"), Report(MinMs - 1, LvNum(1), "rider", "02")}
\* a history of one week
OneWeek == {Past(1, 0, LvNum(3), 0), Past(1, 5, LvNum(3), -1)}

Stores == {{}, TwoReports, TwoReports \cup OneWeek}

Requests ==
    {Request(RouteCC, StopA, "", AtNone, WinNone),
     Request(RouteCC, StopA, "01", AtIso(Start), WinNone),
     Request(RouteCC, StopA, "", AtBad, WinNone)}

Init ==
    /\ store \in Stores
    /\ env = EnvDefault
    /\ InitIngest
    /\ InitChat
    /\ InitLocals

Next ==
    \/ \E p \in Procs, q \in Requests : Invoke(p, q)
    \/ \E p \in Procs, i \in Weeks : StoreAnswerPrior(p, i)
    \/ \E p \in Procs, i \in Weeks : StoreRejectPrior(p, i)
    \/ \E p \in Procs : StoreAnswerCurrent(p)
    \/ \E p \in Procs : StoreRejectCurrent(p)
    \/ \E p \in Procs : StoreStall(p)
    \/ Tick

Spec == Init /\ [][Next]_vars

(***************************************************************************)
(* One invocation at a time, against richer stores                         *)
(***************************************************************************)
NextSeq == \E q \in Requests : Estimate("a", q)

\* The k-th report of a history: the reports are spread over the four
\* weeks, a minute apart within a week; odd ones carry level lvA and even
\* ones lvB; every third one carries a dow attribute.
HistoryItem(k, lvA, lvB) ==
    Past(1 + ((k - 1) % PRIOR_LOOKBACK_WEEKS), (k - 1) \div PRIOR_LOOKBACK_WEEKS,
         IF k % 2 = 1 THEN lvA ELSE lvB,
         IF k % 3 = 0 THEN getUTCDay(Start) ELSE -1)
History(n, lvA, lvB) == {HistoryItem(k, lvA, lvB) : k \in 1..n}

\* reports the prior must not count: one whose dow attribute names another
\* weekday, and one outside the +-30 minute window
Strays == {Past(2, 7, LvNum(4), 3), Past(1, 45, LvNum(4), -1)}

HistoryLevels ==
    {<<LvNum(3), LvNum(3)>>, <<LvNum(1), LvNum(4)>>, <<LvNum(4), LvNum(2)>>,
     <<LvNum(2), LvNum(7)>>, <<LvStr("full"), LvNum(1)>>, <<LvMissing, LvNum(0)>>,
     <<LvStr("4"), LvBool(TRUE)>>, <<LvNum(1), LvNum(1)>>}

InitPrior ==
    /\ \E n \in 0..MaxHistory, lv \in HistoryLevels, strays \in {{}, Strays},
          cur \in {{}, {Report(MinMs, LvNum(4), "driver", "01")}} :
          store = History(n, lv[1], lv[2]) \cup strays \cup cur
    /\ env = EnvDefault
    /\ InitIngest
    /\ InitChat
    /\ InitLocals

SpecPrior == InitPrior /\ [][NextSeq]_vars

\* The reports a current window is drawn from: written k milliseconds
\* apart, at ages from 0 to 16 minutes, and one a millisecond ahead of the centre.
PoolItem(k, min, level, source, bus) == Report(min * MinMs + k, level, source, bus)
Pool ==
    {PoolItem(0, 0, LvNum(1), "driver", "01"), PoolItem(2, 0, LvNum(4), "driver", "01"),
     PoolItem(3, 0, LvNum(4), "driver", "02"), PoolItem(4, 0, LvNum(1), "rider", "01"),
     PoolItem(5, 0, LvNum(1), "rider", "02"), PoolItem(7, 0, LvNum(4), "rider", "02"),
     PoolItem(2, 5, LvNum(4), "driver", "01"), PoolItem(4, 5, LvNum(1), "rider", "02"),
     PoolItem(0, 14, LvNum(1), "driver", "02"), PoolItem(6, 14, LvNum(4), "rider", "01"),
     PoolItem(8, 1, LvNum(3), "rider", "01"), PoolItem(9, 5, LvNum(2), "driver", ""),
     PoolItem(10, 0, LvNum(0), "rider", "01"), PoolItem(11, 5, LvNum(7), "driver", "02"),
     PoolItem(12, 1, LvStr("full"), "rider", ""), PoolItem(13, 14, LvMissing, "", ""),
     PoolItem(14, 1, LvBool(TRUE), "rider", "02"), PoolItem(15, 5, LvStr("4"), "driver", "01"),
     Report(-1, LvNum(4), "rider", "01"), PoolItem(16, 16, LvNum(4), "driver", "01")}

\* at most this many reports of each level in a history of the ladder
MaxPerLevel == 3

\* A history of the last week with c[L] reports of level L, a minute apart.
LadderHistory(c) ==
    UNION {{Past(1, (L - 1) * (MaxPerLevel + 1) + j, LvNum(L), -1) : j \in 1..c[L]} :
              L \in 1..4}

InitLadder ==
    /\ \E c \in [1..4 -> 0..MaxPerLevel] : store = LadderHistory(c)
    /\ env = EnvDefault
    /\ InitIngest
    /\ InitChat
    /\ InitLocals

SpecLadder == InitLadder /\ [][NextSeq]_vars

\* the histories behind the priors of the fold: none, six reports at level
\* 3, one at level 1, eleven at level 4, three of mixed and malformed levels
FoldHistories ==
    {{}, {Past(1, k, LvNum(3), -1) : k \in 1..6}, {Past(1, 0, LvNum(1), -1)},
     {Past(1, k, LvNum(4), -1) : k \in 1..11},
     {Past(1, 1, LvNum(1), -1), Past(1, 2, LvNum(9), -1), Past(1, 3, LvNum(4), -1)}}

RECURSIVE SubsetsUpTo(_, _)
\* the subsets of S of at most k elements
SubsetsUpTo(S, k) ==
    IF k = 0 THEN {{}}
    ELSE LET smaller == SubsetsUpTo(S, k - 1)
         IN  smaller \cup {T \cup {x} : T \in smaller, x \in S}

InitFold ==
    /\ \E hist \in FoldHistories, cur \in SubsetsUpTo(Pool, MaxReports) :
          store = hist \cup cur
    /\ env = EnvDefault
    /\ InitIngest
    /\ InitChat
    /\ InitLocals

SpecFold == InitFold /\ [][NextSeq]_vars

\* Reports of every kind of source attribute: "driver", "rider", none (""),
\* and strings that are neither (the report handler stores the source of
\* the body as it came), at ages of 0, 1, 5 and 14 minutes.
CountPool ==
    {PoolItem(0, 0, LvNum(4), "driver", "01"), PoolItem(1, 0, LvNum(1), "rider", "02"),
     PoolItem(2, 0, LvNum(4), "", "01"), PoolItem(3, 5, LvNum(4), "Driver", "01"),
     PoolItem(4, 5, LvNum(2), "sensor", ""), PoolItem(5, 1, LvNum(3), "driver", "02"),
     PoolItem(6, 14, LvNum(1), "", ""), PoolItem(7, 1, LvNum(4), "DRIVER", "02")}

InitCount ==
    /\ \E hist \in {{}, {Past(1, k, LvNum(3), -1) : k \in 1..6}},
          cur \in SubsetsUpTo(CountPool, MaxReports) :
          store = hist \cup cur
    /\ env = EnvDefault
    /\ InitIngest
    /\ InitChat
    /\ InitLocals

SpecCount == InitCount /\ [][NextSeq]_vars

\* A driver report at level 4 and a rider report at level 1 of the same
\* age (a millisecond apart), at every minute of the default window.
InitPair ==
    /\ \E m \in 0..WIN_DEFAULT, b1, b2 \in {"", "01", "02"} :
          store = {Report(m * MinMs, LvNum(4), "driver", b1),
                   Report(m * MinMs - 1, LvNum(1), "rider", b2)}
    /\ env = EnvDefault
    /\ InitIngest
    /\ InitChat
    /\ InitLocals

SpecPair == InitPair /\ [][NextSeq]_vars

\* The values of the environment variable PRIOR_K0: not set, "0", "-1".
EnvSettings == {EnvDefault, [PRIOR_K0 |-> 0], [PRIOR_K0 |-> -1]}

\* the reports the windows are drawn from under these settings
EnvPool ==
    {Report(0, LvNum(2), "rider", ""), Report(1, LvNum(4), "driver", "01"),
     Report(5 * MinMs, LvNum(1), "rider", "02"), Report(14 * MinMs, LvNum(7), "driver", "")}

InitEnv ==
    /\ \E hist \in {{}, OneWeek}, cur \in SubsetsUpTo(EnvPool, MaxReports) :
          store = hist \cup cur
    /\ env \in EnvSettings
    /\ InitIngest
    /\ InitChat
    /\ InitLocals

SpecEnv == InitEnv /\ [][NextSeq]_vars

\* An invocation ten minutes after midnight UTC of a Sunday: its prior
\* windows run from Saturday 23:40 to Sunday 00:40.
AfterMidnight == Instant(Start.day, 10 * MinMs)

\* the item either version of the report handler wrote `week` weeks before
\* AfterMidnight, offMs milliseconds after the reference instant of that week
Written(hdl, week, offMs, level) ==
    BuildItem(ReportBody(hdl, RouteCC, StopA, "", "rider", level),
              AddMs(PriorRef(AfterMidnight, week), offMs))

\* written on Saturday at 23:55:00.000 and 23:59:59.999, on Sunday at
\* 00:00:00.000 and 00:30:00.000
WeekdayPool ==
    {Written(hdl, week, o[1], LvNum(o[2])) :
        hdl \in {"plain", "cors"}, week \in {1, 2},
        o \in {<<-(15 * MinMs), 4>>, <<-(10 * MinMs) - 1, 3>>,
               <<-(10 * MinMs), 1>>, <<20 * MinMs, 2>>}}

InitWeekday ==
    /\ store \in SubsetsUpTo(WeekdayPool, MaxReports)
    /\ env = EnvDefault
    /\ InitIngest
    /\ InitChat
    /\ InitLocalsAt(AfterMidnight)

SpecWeekday == InitWeekday /\ [][NextSeq]_vars

\* Histories spread over the four weeks, the levels differing from week to
\* week, for invocations whose prior-window queries complete in any order.
JoinStores ==
    {History(3, LvNum(1), LvNum(4)), History(4, LvNum(4), LvNum(2)) \cup TwoReports,
     History(2, LvNum(3), LvNum(7))}

InitJoin ==
    /\ store \in JoinStores
    /\ env = EnvDefault
    /\ InitIngest
    /\ InitChat
    /\ InitLocals

SpecJoin == InitJoin /\ [][Next]_vars

\* Two stops of the route, each with its own history and current reports,
\* for invocations running side by side.
StopB == <<"B">>
AtStopB(item) == [item EXCEPT !.PK = PartitionKey(RouteCC, StopB)]
ParStore ==
    TwoReports \cup OneWeek
    \cup {AtStopB(Report(2 * MinMs, LvNum(1), "driver", "01")),
          AtStopB(Past(1, 3, LvNum(1), -1)), AtStopB(Past(2, 4, LvNum(2), -1))}
ParRequests ==
    {Request(RouteCC, StopA, "", AtNone, WinNone),
     Request(RouteCC, StopB, "", AtNone, WinNone),
     Request(RouteCC, StopA, "01", AtIso(Start), WinNone),
     Request(RouteCC, StopB, "", AtBad, WinNone)}

InitPar ==
    /\ store = ParStore
    /\ env = EnvDefault
    /\ InitIngest
    /\ InitChat
    /\ InitLocals

NextPar ==
    \/ \E p \in Procs, q \in ParRequests : Invoke(p, q)
    \/ \E p \in Procs, i \in Weeks : StoreAnswerPrior(p, i)
    \/ \E p \in Procs, i \in Weeks : StoreRejectPrior(p, i)
    \/ \E p \in Procs : StoreAnswerCurrent(p)
    \/ \E p \in Procs : StoreRejectCurrent(p)
    \/ \E p \in Procs : StoreStall(p)
    \/ Tick

SpecPar == InitPar /\ [][NextPar]_vars

\* Route and stop names as the handlers accept them: any non-empty string,
\* the character # included.
IsoRoutes == {<<"A">>, <<"A", "#", "B">>}
IsoStops == {<<"C">>, <<"B", "#", "C">>}
IsoBodies ==
    {ReportBody(hdl, route, stop, "", "rider", LvNum(4)) :
        hdl \in {"plain", "cors"}, route \in IsoRoutes, stop \in IsoStops}
IsoRequests ==
    {Request(route, stop, "", AtNone, WinNone) : route \in IsoRoutes, stop \in IsoStops}

InitIso ==
    /\ store = {}
    /\ env = EnvDefault
    /\ InitIngest
    /\ InitChat
    /\ InitLocals

\* Reports are posted and stored while estimates are asked for.
NextIso ==
    \/ \E h \in IProcs, b \in IsoBodies : Receive(h, b)
    \/ \E h \in IProcs : PutAnswer(h)
    \/ \E h \in IProcs : PutReject(h)
    \/ \E q \in IsoRequests : Estimate("a", q)
    \/ Tick

SpecIso == InitIso /\ [][NextIso]_vars

\* Histories of four reports in each of three weeks, the levels of a week
\* taken from five patterns.
WeekLevels ==
    {<<1, 3, 1, 3>>, <<3, 4, 3, 2>>, <<2, 1, 2, 4>>, <<3, 3, 3, 3>>, <<1, 1, 4, 4>>}
WeekOf(week, lv) == {Past(week, 4 - j, LvNum(lv[j]), -1) : j \in 1..4}

\* reports stamped at the centre, and one a millisecond after it
FreshPool ==
    {Report(0, LvNum(2), "rider", ""), Report(0, LvNum(3), "driver", "01"),
     Report(0, LvNum(1), "rider", "01"), Report(0, LvNum(4), "driver", ""),
     Report(0, LvNum(3), "rider", "02"), Report(-1, LvNum(2), "driver", "01")}

InitDouble ==
    /\ \/ \E a \in WeekLevels, b \in WeekLevels, c \in WeekLevels :
             store = WeekOf(1, a) \cup WeekOf(2, b) \cup WeekOf(3, c)
       \/ \E hist \in {{}, WeekOf(1, <<3, 3, 3, 3>>), WeekOf(2, <<1, 1, 4, 4>>)},
             cur \in SubsetsUpTo(FreshPool, MaxReports) :
             store = hist \cup cur
    /\ env = EnvDefault
    /\ InitIngest
    /\ InitChat
    /\ InitLocals

NextDouble == \E q \in Requests : EstimateDouble("a", q)

SpecDouble == InitDouble /\ [][NextDouble]_vars

\* The bodies posted to the report handler: the four levels of the data
\* model in part, levels outside it, a level as a string, no level, no route.
ReportLevels == {LvNum(1), LvNum(4), LvNum(7), LvNum(0), LvStr("3"), LvMissing}
ReportBodies ==
    {ReportBody(hdl, RouteCC, StopA, "01", IF lv = LvNum(4) THEN "driver" ELSE "", lv) :
        hdl \in {"plain", "cors"}, lv \in ReportLevels}
    \cup {ReportBody(hdl, << >>, StopA, "", "", LvNum(1)) : hdl \in {"plain", "cors"}}

InitReports ==
    /\ store = {}
    /\ env = EnvDefault
    /\ InitIngest
    /\ InitChat
    /\ InitLocals

NextReports ==
    \/ \E h \in IProcs, b \in ReportBodies : Receive(h, b)
    \/ \E h \in IProcs : PutAnswer(h)
    \/ \E h \in IProcs : PutReject(h)
    \/ Tick

SpecReports == InitReports /\ [][NextReports]_vars

\* The bodies posted to report/app.js: those above, no body at all (read as
\* "{}"), and bodies without a stop or without a level.
PlainBodies ==
    {b \in ReportBodies : b.hdl = "plain"}
        \cup {NoReportBody,
              ReportBody("plain", RouteCC, << >>, "01", "driver", LvNum(2)),
              ReportBody("plain", RouteCC, StopA, "", "rider", LvMissing)}

NextPlain ==
    \/ \E h \in IProcs, b \in PlainBodies : Receive(h, b)
    \/ \E h \in IProcs, raw \in {"text", "null"} : ReceiveBroken(h, "plain", raw)
    \/ \E h \in IProcs : PutAnswer(h)
    \/ \E h \in IProcs : PutReject(h)
    \/ Tick

SpecPlain == InitReports /\ [][NextPlain]_vars

NextChat ==
    \/ \E c \in Sends : SendMessage(c)
    \/ \E c \in Sends : ReadChunk(c)
    \/ \E c \in Sends : ReadDone(c)
    \/ \E c \in Sends : ReadFails(c)

SpecChat == InitReports /\ [][NextChat]_vars

\* The event loop runs every continuation that is ready, and a store that
\* has not stalled answers: no fairness is asked of rejections, stalls or
\* new invocations.
FairSpec ==
    /\ Spec
    /\ \A p \in Procs : WF_vars(\E i \in Weeks : StoreAnswerPrior(p, i))
    /\ \A p \in Procs : WF_vars(StoreAnswerCurrent(p))

(***************************************************************************)
(* Claims                                                                  *)
(***************************************************************************)
Done(p) == pc[p] = "done"

\* C3 (as stated): two invocations with identical inputs against the unchanged
\* store, which returned the same items in the same order to both, respond
\* with identical bodies.
C3_Idempotent ==
    \A p, r \in Procs :
        (/\ Done(p) /\ Done(r)
         /\ req[p] = req[r]
         /\ results[p] = results[r]
         /\ reports[p] = reports[r])
        => resp[p] = resp[r]

\* C4 (as stated): a rejected store query is not fatal; the invocation does
\* not end in an error.
C4_StoreFailureNotFatal ==
    \A p \in Procs : storeFailed[p] => pc[p] # "threw"

\* C5 (as stated): once the store has stopped answering an invocation, the
\* invocation still ends, with a response or with an error.
C5_NeverBlocksForever ==
    \A p \in Procs : stalled[p] ~> (pc[p] \in {"done", "threw"})

\* the reports of the store that the prior of invocation p has to count:
\* same partition, inside one of the prior windows, of the weekday of the centre
Kept(p) ==
    {it \in store :
        /\ it.PK = PartitionKey(req[p].route, req[p].stop)
        /\ \E i \in Weeks : /\ IsoLeq(PriorSince(centerMs[p], i), it.SK)
                            /\ IsoLeq(it.SK, PriorUntil(centerMs[p], i))
        /\ ItemDow(it) = getUTCDay(centerMs[p])}

RECURSIVE FracSum(_)
\* the sum of the level fractions of a set of reports, in twentieths
FracSum(S) ==
    IF S = {} THEN 0
    ELSE LET x == CHOOSE y \in S : TRUE IN levelToFrac(x.level) + FracSum(S \ {x})

\* a level that is none of 1, 2, 3, 4 as a number
Malformed(lv) == Number(lv).nan \/ Number(lv).n \notin {1, 2, 3, 4}

\* the report with a malformed level replaced by level 2, the level of fraction 0.35
AsLevel2(r) == IF Malformed(r.level) THEN [r EXCEPT !.level = LvNum(2)] ELSE r

\* C1: every response has 0 <= mu <= 1, 0 <= est_headcount <= CAPACITY and
\* 0 <= headcount_ci68[0] <= headcount_ci68[1] <= CAPACITY.
C1_ResultInRange ==
    \A p \in Procs : Done(p) =>
        /\ 0 <= Mu(acc[p]).n /\ Mu(acc[p]).n <= Mu(acc[p]).d
        /\ 0 <= resp[p].est_headcount /\ resp[p].est_headcount <= 60
        /\ 0 <= resp[p].headcount_ci68[1]
        /\ resp[p].headcount_ci68[1] <= resp[p].headcount_ci68[2]
        /\ resp[p].headcount_ci68[2] <= 60

\* C1 witness: an invocation folded two reports, one of a malformed level, and
\* the upper end of its interval reaches the capacity.
C1_Witness ==
    \E p \in Procs :
        /\ Done(p) /\ Len(reports[p]) = 2
        /\ \E k \in 1..2 : Malformed(reports[p][k].level)
        /\ resp[p].headcount_ci68[2] >= 55

\* C2 (as stated): the response does not depend on the order in which the
\* store returned the reports of the current window.
C2_OrderIndependent ==
    \A p \in Procs : Done(p) =>
        \A other \in AllOrders({reports[p][k] : k \in 1..Len(reports[p])}) :
            Fuse(prior[p], other, BusId(req[p]), centerMs[p]) = acc[p]

C7_FallbackPrior ==
    \A p \in Procs : (Done(p) /\ Kept(p) = {}) =>
        /\ resp[p].prior = [mu0 |-> [n |-> 7, d |-> 20], k0 |-> 2]
        /\ prior[p].mu0.n = 7 * prior[p].mu0.d
        /\ prior[p].k0 = 2
        /\ reports[p] = << >> =>
              /\ resp[p].est_headcount = 21
              /\ resp[p].counts.reports = 0
              /\ resp[p].confidence = "low"

\* C7 witness: a response from a store whose only history is of another
\* weekday or outside the prior windows, with an empty current window.
C7_Witness ==
    \E p \in Procs :
        /\ Done(p) /\ Kept(p) = {} /\ reports[p] = << >>
        /\ Strays \subseteq store
        /\ resp[p].est_headcount = 21

\* C8: with n >= 1 reports of the weekday kept, mu0 is the mean of their
\* fractions and k0 = clamp(n, 2, 10); six reports at level 3 give mu0 = 0.65
\* and k0 = 6.
C8_PriorFromHistory ==
    \A p \in Procs : (Done(p) /\ Kept(p) # {}) =>
        LET n == Cardinality(Kept(p))
        IN  /\ prior[p].mu0.n * n = FracSum(Kept(p)) * prior[p].mu0.d
            /\ prior[p].k0 = (IF n < 2 THEN 2 ELSE IF n > 10 THEN 10 ELSE n)
            /\ 2 <= prior[p].k0 /\ prior[p].k0 <= 10
            /\ (n = 6 /\ \A it \in Kept(p) : it.level = LvNum(3)) =>
                  /\ resp[p].prior = [mu0 |-> [n |-> 13, d |-> 20], k0 |-> 6]

\* C8 witness: more than ten reports of the weekday were kept and the
\* strength of the prior is 10.
C8_Witness ==
    \E p \in Procs :
        /\ Done(p) /\ Cardinality(Kept(p)) > 10 /\ prior[p].k0 = 10

\* no report of the window gets the same-bus bonus
NoBonus(p) == \A k \in 1..Len(reports[p]) : sameBusBonus(reports[p][k], BusId(req[p])) = 2

\* the window of p is the driver's level-4 report and the rider's level-1
\* report, under the default prior and without a bonus
DriverRiderPair(p) ==
    /\ Done(p) /\ Len(reports[p]) = 2 /\ NoBonus(p)
    /\ prior[p] = [mu0 |-> [n |-> 7, d |-> 1], k0 |-> 2]
    /\ \E k \in 1..2 : /\ reports[p][k].source = "driver"
                       /\ reports[p][k].level = LvNum(4)
                       /\ reports[p][3 - k].source = "rider"
                       /\ reports[p][3 - k].level = LvNum(1)

Matching(p) ==
    {k \in 1..Len(reports[p]) : sameBusBonus(reports[p][k], BusId(req[p])) # 2}

\* est_headcount of the same reports, in the same order, without a bus_id
EstWithoutBus(p) == Result(prior[p], reports[p], "", centerMs[p]).est_headcount

Accepted(h) == ipc[h] = "200"

\* C14 (as stated): starting from an empty table, after k accepted reports
\* the table holds k items: an accepted report never replaces another.
C14_AppendOnly ==
    Cardinality(store) = Cardinality({h \in IProcs : Accepted(h)})

\* C15 (as stated): every item the report handler has stored has an integer
\* level between 1 and 4.
C15_StoredLevelInRange ==
    \A it \in store : it.level.t = "num" /\ it.level.n \in 1..4

RECURSIVE FracLess(_, _, _, _)
\* a/b < c/d for a, c >= 0 and b, d > 0, by continued fractions (no product)
FracLess(a, b, c, d) ==
    IF a \div b # c \div d THEN a \div b < c \div d
    ELSE IF c % d = 0 THEN FALSE
    ELSE IF a % b = 0 THEN TRUE
    ELSE FracLess(d, c % d, b, a % b)

\* x < y for two means [n, d]
MeanLess(x, y) == FracLess(x.n, x.d, y.n, y.d)

\* num / den of an accumulator with den > 0, as a fraction
RunningMean(a) == [n |-> a.num, d |-> 20 * a.u * a.den]

\* the accumulator of p before its k-th report is folded
Before(p, k) ==
    Fuse(prior[p], SubSeq(reports[p], 1, k - 1), BusId(req[p]), centerMs[p])

\* the k-th report of p differs from the running mean by more than 0.40
FarFromMean(p, k) ==
    LET b == Before(p, k)
        f == levelToFrac(reports[p][k].level)
    IN  Abs(f * b.u * b.den - b.num) > 8 * b.u * b.den

\* the accumulator after the k-th report of p, folded with the weight
\* base * decay * bonus and no down-weight
Undamped(p, k) ==
    LET b == Before(p, k)
        r == reports[p][k]
        w == base(r) * decay(MsAgo(centerMs[p], r.SK)) * sameBusBonus(r, BusId(req[p])) * 5
    IN  [b EXCEPT !.num = @ + b.u * w * levelToFrac(r.level), !.den = @ + w]

C12_LadderInverse ==
    /\ \A L \in 1..3 : levelToFrac(LvNum(L)) < levelToFrac(LvNum(L + 1))
    /\ \A p \in Procs : Done(p) =>
          LET mu == Mu(acc[p])
          IN  /\ resp[p].level = 1 + Cardinality({t \in 1..3 : t * mu.d <= 4 * mu.n})
              /\ \A L \in 1..4 :
                    mu.n * 20 = levelToFrac(LvNum(L)) * mu.d => resp[p].level = L

\* C12 witness: a response whose mu is exactly 0.75, from two reports of
\* level 4 and three of level 3, and whose level is 4.
C12_Witness ==
    \E p \in Procs :
        /\ Done(p)
        /\ 4 * Mu(acc[p]).n = 3 * Mu(acc[p]).d
        /\ Cardinality(Kept(p)) = 5
        /\ resp[p].level = 4

\* C13: no step of an invocation of lambdaHandler, answered or rejected,
\* changes the table.
C13_NeverWrites == [][store' = store]_vars

\* C13 witness: against a table that holds reports, one invocation has
\* responded from reports it read and the other has failed on a rejected query.
C13_Witness ==
    \E p, r \in Procs :
        /\ Done(p) /\ reports[p] # << >>
        /\ pc[r] = "threw" /\ storeFailed[r]
        /\ store # {}

\* the reports are in ascending order of their timestamps
IsAscending(sq) == \A i, j \in 1..Len(sq) : i < j => IsoLeq(sq[i].SK, sq[j].SK)

\* The left fold as the specification words it, in the units of the model
\* (num in 1/(1000 * 20 * count), den in thousandths): the pair after the
\* first k reports.
SpecifiedFold(pr, rs, busId, c) ==
    LET ref[k \in 0..Len(rs)] ==
            IF k = 0
            THEN [num |-> pr.k0 * pr.mu0.n * 1000, den |-> pr.k0 * 1000]
            ELSE LET r == rs[k]
                     prev == ref[k - 1]
                     f == levelToFrac(r.level)
                     wBase == IF r.source = "driver" THEN 3 ELSE 1
                     bonus == IF busId # "" /\ r.bus_id = busId THEN 3 ELSE 2
                     far == Abs(f * pr.mu0.d * prev.den - prev.num)
                               > 8 * pr.mu0.d * prev.den
                     w == wBase * decay(MsAgo(c, r.SK)) * bonus * (IF far THEN 3 ELSE 5)
                 IN  [num |-> prev.num + pr.mu0.d * w * f, den |-> prev.den + w]
    IN  ref[Len(rs)]

\* C16: for reports returned in ascending order of timestamp, num and den
\* after the loop are those of the specified left fold, and mu is
\* clamp(num / den, 0, 1).
C16_FoldAsSpecified ==
    \A p \in Procs : (Done(p) /\ IsAscending(reports[p])) =>
        LET ref == SpecifiedFold(prior[p], reports[p], BusId(req[p]), centerMs[p])
            d == 20 * prior[p].mu0.d * ref.den
        IN  /\ acc[p].num = ref.num
            /\ acc[p].den = ref.den
            /\ Mu(acc[p]) = [n |-> Max(0, Min(d, ref.num)), d |-> d]
            /\ resp[p].est_headcount = (120 * Max(0, Min(d, ref.num)) + d) \div (2 * d)

\* C16 witness: two reports in ascending order were folded, one with the
\* bus bonus and one down-weighted, on a prior computed from a history.
C16_Witness ==
    \E p \in Procs :
        /\ Done(p) /\ Len(reports[p]) = 2 /\ IsAscending(reports[p])
        /\ Matching(p) # {}
        /\ \E k \in 1..2 : FarFromMean(p, k)
        /\ Kept(p) # {}

\* C17 (as stated): before and after every report of the loop den is at
\* least the k0 of the prior and, whenever num / den is evaluated (den is
\* not 0), positive; and kEff + 1, the divisor under sigma, is not 0.
C17_DenPositive ==
    \A p \in Procs : Done(p) =>
        /\ \A k \in 1..(Len(reports[p]) + 1) :
              /\ Before(p, k).den >= prior[p].k0 * 1000
              /\ Before(p, k).den # 0 => Before(p, k).den > 0
        /\ acc[p].den + 1000 # 0

\* the prior of the returned reports whose timestamp is of the weekday of
\* the centre
PriorOfTimestampWeekday(p) ==
    LET all == FlatMap(results[p])
        same == SelectSeq(all, LAMBDA it : getUTCDay(it.SK) = getUTCDay(centerMs[p]))
        fs == [k \in 1..Len(same) |-> levelToFrac(same[k].level)]
    IN  IF Len(same) = 0 THEN FallbackPrior
        ELSE [mu0 |-> [n |-> SumSeq(fs), d |-> Len(fs)],
              k0 |-> Min(PRIOR_K_MAX, Max(PRIOR_K_MIN, Len(fs)))]

\* C18: the prior is the one of exactly the returned reports whose
\* timestamp is of the weekday of the reference instant T: a returned
\* report of another weekday changes neither mu0 nor k0, and no report of
\* the weekday of T is left out.
C18_SameWeekdayOnly ==
    \A p \in Procs : Done(p) => prior[p] = PriorOfTimestampWeekday(p)

\* C18 witness: a response whose prior windows returned a report of the
\* weekday of T and one of the day before, one of them carrying the dow
\* attribute the later report handler writes.
C18_Witness ==
    \E p \in Procs :
        /\ Done(p)
        /\ LET all == FlatMap(results[p])
           IN  /\ \E k \in 1..Len(all) : getUTCDay(all[k].SK) = getUTCDay(centerMs[p])
               /\ \E k \in 1..Len(all) : getUTCDay(all[k].SK) # getUTCDay(centerMs[p])
               /\ \E k \in 1..Len(all) : all[k].dow # -1
               /\ \E k \in 1..Len(all) : all[k].dow = -1

\* a timestamp inside the closed window [T - windowMinutes, T] of invocation p
InWindow(p, sk) ==
    /\ IsoLeq(SinceIso(req[p], centerMs[p]), sk)
    /\ IsoLeq(sk, centerMs[p])

\* C19 (as stated): every folded report is stamped inside the closed window
\* [T - windowMinutes, T], and num, den and the counts are those of the
\* returned reports of that window alone.
C19_OnlyWindowFolded ==
    \A p \in Procs : Done(p) =>
        /\ \A k \in 1..Len(reports[p]) : InWindow(p, reports[p][k].SK)
        /\ acc[p] = Fuse(prior[p], SelectSeq(reports[p], LAMBDA r : InWindow(p, r.SK)),
                         BusId(req[p]), centerMs[p])

\* the fold of invocation p has not started: nothing is accumulated and
\* there is no response
FoldNotStarted(p) ==
    /\ reports[p] = << >>
    /\ acc[p] = Seed(FallbackPrior)
    /\ resp[p] = NoBody

\* the prior-window queries of invocation p have all completed and the
\* prior is the one computed from their results
PriorJoined(p) ==
    /\ \A i \in Weeks : queries[p][i] = "ok"
    /\ prior[p] = computeWeekdayPrior(results[p], centerMs[p])

\* C20: an invocation sends its PRIOR_LOOKBACK_WEEKS = 4 prior-window
\* queries at once and no current-window query while one of them is
\* outstanding; the current-window query, the fifth, is sent when all four
\* have completed and the prior is computed, and the fold starts after it;
\* an invocation that responds has sent exactly four and one.
C20_QueriesThenFold ==
    \A p \in Procs :
        /\ pc[p] = "idle" => sent[p] = 0
        /\ pc[p] = "prior" =>
              /\ sent[p] = PRIOR_LOOKBACK_WEEKS
              /\ \A i \in Weeks : queries[p][i] \in {"pending", "ok"}
              /\ current[p] = "unsent"
              /\ FoldNotStarted(p)
        /\ pc[p] = "current" =>
              /\ sent[p] = PRIOR_LOOKBACK_WEEKS + 1
              /\ current[p] = "pending"
              /\ PriorJoined(p)
              /\ FoldNotStarted(p)
        /\ Done(p) =>
              /\ sent[p] = PRIOR_LOOKBACK_WEEKS + 1
              /\ current[p] = "ok"
              /\ PriorJoined(p)
              /\ acc[p] = Fuse(prior[p], reports[p], BusId(req[p]), centerMs[p])
        /\ sent[p] <= PRIOR_LOOKBACK_WEEKS + 1

\* C20 witness: one invocation has responded to five queries, with reports
\* folded, while the other waits for some of its prior-window queries with
\* others already answered.
C20_Witness ==
    \E p, o \in Procs :
        /\ Done(p)
        /\ sent[p] = PRIOR_LOOKBACK_WEEKS + 1
        /\ reports[p] # << >>
        /\ pc[o] = "prior"
        /\ \E i, j \in Weeks : queries[o][i] = "ok" /\ queries[o][j] = "pending"

\* the prior of a set of kept reports, whatever the order they came in
PriorOfSet(S) ==
    IF S = {} THEN FallbackPrior
    ELSE [mu0 |-> [n |-> FracSum(S), d |-> Cardinality(S)],
          k0 |-> PriorStrength(Cardinality(S))]

\* the prior-window queries of invocation p have been joined
Joined(p) == pc[p] \in {"current", "done"}

\* C21: whatever the order in which the four prior-window queries of an
\* invocation completed, its prior is the one of the reports of the weekday
\* in the four windows; two invocations of the same request at the same
\* instant have the same prior.
C21_PriorOrderFree ==
    /\ \A p \in Procs : Joined(p) => prior[p] = PriorOfSet(Kept(p))
    /\ \A p, o \in Procs :
          (Joined(p) /\ Joined(o) /\ req[p] = req[o] /\ centerMs[p] = centerMs[o]) =>
              prior[p] = prior[o]

\* C21 witness: one invocation has its prior from reports of different
\* levels in more than one window, while for another invocation of the same
\* request the query of week 4 has completed before the one of week 1.
C21_Witness ==
    \E p, o \in Procs :
        /\ Joined(p)
        /\ \E i, j \in Weeks :
              /\ i # j
              /\ results[p][i] # << >> /\ results[p][j] # << >>
              /\ results[p][i][1].level # results[p][j][1].level
        /\ req[o] = req[p] /\ centerMs[o] = centerMs[p]
        /\ pc[o] = "prior"
        /\ queries[o][PRIOR_LOOKBACK_WEEKS] = "ok" /\ queries[o][1] = "pending"
        /\ results[o][PRIOR_LOOKBACK_WEEKS] # << >>

\* the instants the clock of the model shows
Clock == {AddMs(Start, k) : k \in 0..MaxTicks}

\* the response to request q at centre c from the prior-window results
\* got and the current-window result items, sent at t
Alone(q, c, got, items, t) ==
    Body(q, Result(computeWeekdayPrior(got, c), items, BusId(q), c), t)

\* C22: against an unchanged store an invocation that ran interleaved with
\* another one, for the same or another (route, stop), responds as it does
\* when it runs alone: its response is computed from its own request, the
\* answers of the store to its own five queries and its own clock reading.
C22_NoInterference ==
    \A p \in Procs : Done(p) =>
        /\ results[p] \in PriorAnswers(req[p], centerMs[p], PRIOR_LOOKBACK_WEEKS)
        /\ reports[p] \in ReturnOrders(CurrentQuery(req[p], centerMs[p]))
        /\ resp[p].ts \in Clock
        /\ resp[p] = Alone(req[p], centerMs[p], results[p], reports[p], resp[p].ts)

\* C22 witness: two invocations for different stops were both invoked
\* before the clock moved and both responded after it, with different
\* priors and reports folded.
C22_Witness ==
    \E p, o \in Procs :
        /\ Done(p) /\ Done(o)
        /\ req[p].stop # req[o].stop
        /\ req[p].at = AtNone /\ req[o].at = AtNone
        /\ centerMs[p] = Start /\ centerMs[o] = Start
        /\ resp[p].ts # Start /\ resp[o].ts # Start
        /\ resp[p].prior # resp[o].prior
        /\ reports[p] # << >> /\ reports[o] # << >>

\* C23: the confidence of a response is low exactly when kEff = den < 3,
\* med exactly when 3 <= kEff < 6 and high exactly when kEff >= 6 (den is in
\* thousandths); it is one of the three labels.
C23_ConfidenceOfKEff ==
    \A p \in Procs : Done(p) =>
        LET k == acc[p].den
            c == resp[p].confidence
        IN  /\ c \in {"low", "med", "high"}
            /\ c = "low" <=> k < 3000
            /\ c = "med" <=> (3000 <= k /\ k < 6000)
            /\ c = "high" <=> k >= 6000

\* C23 witness: a response whose folded reports brought kEff to exactly 3,
\* labelled med.
C23_Witness ==
    \E p \in Procs :
        /\ Done(p)
        /\ reports[p] # << >>
        /\ acc[p].den = 3000
        /\ resp[p].confidence = "med"

\* the mean of the history and its strength, in doubles, as the prior of
\* invocation p was computed
PriorDouble(p) == PriorD(results[p], centerMs[p])

\* C24 (as stated): with an empty current window kEff = k0, all counts are
\* 0, est_headcount = round(mu0 * CAPACITY), and the level and the
\* confidence are those of mu0 and k0.
C24_EmptyWindowIsPrior ==
    \A p \in Procs : (Done(p) /\ reports[p] = << >>) =>
        /\ acc[p].den = prior[p].k0 * 1000
        /\ resp[p].counts = [reports |-> 0, driver |-> 0, rider |-> 0]
        /\ resp[p].confidence = Confidence(prior[p].k0 * 1000)
        /\ resp[p].est_headcount = RoundHalfUp(MulD(PriorDouble(p).mu0, CAP))
        /\ resp[p].level = (IF PriorDouble(p).mu0[1] < 2048 THEN 1
                            ELSE IF PriorDouble(p).mu0[1] < 4096 THEN 2
                            ELSE IF PriorDouble(p).mu0[1] < 6144 THEN 3 ELSE 4)

\* C25 (as stated): every report an estimate folds was posted for the
\* route and the stop of the estimate, whatever the names.
C25_IsolatedByRouteStop ==
    \A p \in Procs : Done(p) =>
        \A k \in 1..Len(reports[p]) : \A h \in IProcs :
            (ipc[h] = "200" /\ iitem[h] = reports[p][k]) =>
                /\ ibody[h].route = req[p].route
                /\ ibody[h].stop = req[p].stop

\* x <= y for two doubles
LeqD(x, y) ==
    \/ x[1] < y[1]
    \/ x[1] = y[1] /\ x[2] < y[2]
    \/ x[1] = y[1] /\ x[2] = y[2] /\ x[3] <= y[3]

\* x and y differ by at most t * 2^-55
NearD(x, y, t) ==
    /\ x[1] = y[1]
    /\ Abs(x[2] - y[2]) <= 1
    /\ Abs((x[2] - y[2]) * Limb + x[3] - y[3]) <= t

\* mu0 and the fractions of the first k reports of p, in doubles and as
\* exact fractions
FoldedD(p, k) ==
    {PriorDouble(p).mu0} \cup {FracD(levelToFrac(reports[p][j].level)) : j \in 1..k}
Folded(p, k) ==
    {[n |-> prior[p].mu0.n, d |-> 20 * prior[p].mu0.d]}
        \cup {[n |-> levelToFrac(reports[p][j].level), d |-> 20] : j \in 1..k}

\* num / den in doubles after the first k reports of p
MeanAfterD(p, k) ==
    MeanD(FoldD(SeedD(PriorDouble(p).mu0, PriorDouble(p).k0),
                SubSeq(reports[p], 1, k), BusId(req[p])))

AccAfter(p, k) ==
    FoldFrom(Seed(prior[p]), SubSeq(reports[p], 1, k), BusId(req[p]), centerMs[p])

\* the positions of the current window of p whose report has a source in S,
\* or outside S
SourceIn(p, S) == {k \in 1..Len(reports[p]) : reports[p][k].source \in S}
SourceNotIn(p, S) == {k \in 1..Len(reports[p]) : reports[p][k].source \notin S}

\* C27: every report returned for the current window is counted exactly
\* once: counts.driver is the number of reports whose source is exactly
\* "driver", counts.rider the number of all others (missing and unknown
\* sources included), the two add up to counts.reports, the number of
\* reports returned; and each step of the fold raises exactly one of the
\* two counters by one and adds to den the weight built on the base weight
\* of the counter it raised.
C27_CountedOnce ==
    \A p \in Procs : Done(p) =>
        /\ resp[p].counts.reports = Len(reports[p])
        /\ resp[p].counts.driver = Cardinality(SourceIn(p, {"driver"}))
        /\ resp[p].counts.rider = Cardinality(SourceNotIn(p, {"driver"}))
        /\ resp[p].counts.driver + resp[p].counts.rider = resp[p].counts.reports
        /\ \A k \in 1..Len(reports[p]) :
              LET a0 == AccAfter(p, k - 1)
                  a1 == AccAfter(p, k)
                  r == reports[p][k]
                  asDriver == a1.countDriver = a0.countDriver + 1 /\ a1.countRider = a0.countRider
                  asRider == a1.countRider = a0.countRider + 1 /\ a1.countDriver = a0.countDriver
              IN  /\ asDriver <=> r.source = "driver"
                  /\ asRider <=> r.source # "driver"
                  /\ a1.den - a0.den =
                        (IF asDriver THEN wDriver ELSE wRider)
                            * decay(MsAgo(centerMs[p], r.SK))
                            * sameBusBonus(r, BusId(req[p]))
                            * (IF IsOutlier(a0, levelToFrac(r.level))
                               THEN outlierFactor ELSE inlierFactor)

\* C27 witness: a response over a driver report and a report whose source
\* is missing or is neither "driver" nor "rider", counted as one driver and
\* one rider.
C27_Witness ==
    \E p \in Procs :
        /\ Done(p)
        /\ SourceIn(p, {"driver"}) # {}
        /\ SourceNotIn(p, {"driver", "rider"}) # {}
        /\ resp[p].counts = [reports |-> 2, driver |-> 1, rider |-> 1]

\* C28: the interval of every response contains its point estimate, and the
\* capacity figures are consistent: headcount_ci68[0] <= est_headcount <=
\* headcount_ci68[1], remaining_capacity >= 0 and est_headcount +
\* remaining_capacity = CAPACITY.
C28_IntervalAndCapacity ==
    \A p \in Procs : Done(p) =>
        LET b == resp[p]
        IN  /\ b.headcount_ci68[1] \in Int /\ b.headcount_ci68[2] \in Int
            /\ b.headcount_ci68[1] <= b.est_headcount
            /\ b.est_headcount <= b.headcount_ci68[2]
            /\ b.remaining_capacity >= 0
            /\ b.est_headcount + b.remaining_capacity = CAP

\* C28 witness: a response over a non-empty window whose estimate lies
\* strictly inside its interval, with capacity left.
C28_Witness ==
    \E p \in Procs :
        /\ Done(p)
        /\ reports[p] # << >>
        /\ resp[p].headcount_ci68[1] < resp[p].est_headcount
        /\ resp[p].est_headcount < resp[p].headcount_ci68[2]
        /\ resp[p].remaining_capacity > 0

\* whether the body invocation h of the report handler received has no
\* route, no stop or no level: an object without one of them (no body at
\* all is read as "{}"), or the JSON value null
LacksField(h) ==
    \/ iraw[h] = "null"
    \/ /\ iraw[h] = "object"
       /\ (ibody[h].route = << >> \/ ibody[h].stop = << >> \/ ibody[h].level = LvMissing)

\* whether the table holds an item under the key of the item h built
ItemStored(h) == \E x \in store : x.PK = iitem[h].PK /\ x.SK = iitem[h].SK

\* C29 (as stated): report/app.js answers a body that lacks route, stop or
\* level with 400 and has then sent nothing to the table; it answers an
\* unparsable body with 500; no invocation ends in an uncaught exception; a
\* failed write is answered 500; and an invocation that answered 200 has
\* its item in the table.
C29_ReportErrors ==
    \A h \in IProcs : ipc[h] # "idle" =>
        /\ LacksField(h) => (ipc[h] = "400" /\ iitem[h] = NoItem)
        /\ iraw[h] = "text" => ipc[h] = "500"
        /\ ipc[h] \in {"400", "put", "200", "500"}
        /\ ipc[h] = "200" => ItemStored(h)
        /\ (ipc[h] = "500" /\ iraw[h] = "object") => iitem[h] # NoItem

\* the calls whose pieces the text of message i holds
OwnersOf(i) == {messages[i].text[k].of : k \in 1..Len(messages[i].text)}

\* whether the reply to call c began to stream into the placeholder created
\* for c, the message after its user message
Began(c) ==
    /\ 2 * c <= Len(messages)
    /\ \E k \in 1..Len(messages[2 * c].text) :
          messages[2 * c].text[k] = Piece(c, "chunk")

\* C30 (as stated): once the reply to a call has begun to stream, whatever
\* is sent meanwhile, every chunk read for the call is in the placeholder
\* created for it; no bubble holds text of another call's reply; and the
\* list keeps each user message immediately followed by its own reply.
C30_OwnBubble ==
    /\ \A c \in Sends : Began(c) => messages[2 * c] = BotMessage(streamAcc[c])
    /\ (\E c \in Sends : Began(c)) =>
          \A i \in 1..Len(messages) :
              LET c == (i + 1) \div 2
              IN  IF i % 2 = 1 THEN messages[i] = UserMessage(c)
                  ELSE messages[i].type = "bot" /\ OwnersOf(i) \subseteq {c}

====
